---- MODULE Spec2Model ----
(***************************************************************************)
(* A model of the static-site build tool (scripts/tools/build.py) and of   *)
(* the static-file synchronisation watcher (scripts/tools/sync.py, whose   *)
(* handler is duplicated in build.py).                                     *)
(*                                                                         *)
(* The file system is two trees over one finite universe of relative      *)
(* paths: srcTree is the source directory, outTree the output directory.   *)
(* One build process at a time runs clean(), build() and, when asked, the  *)
(* watcher; time is a counter of clock ticks.                              *)
(***************************************************************************)
EXTENDS Naturals, Integers, Sequences, FiniteSets, TLC

\* ------------------------------------------------------------ bounds ----
\* The last clock value the model lets the clock reach.
MaxTime == 4
\* How many times the build tool is run.
MaxRuns == 2
\* Clock ticks in one UTC calendar day (the scale of the model's calendar).
TicksPerDay == 2
\* Calendar days after which the two-digit year of "%y" repeats.
DaysPerCentury == 2
\* The watcher's bufferDelay, in clock ticks (a parameter of the tools).
BufferDelay == 2
\* How many notifications one watcher handles.
MaxEvents == 3
\* How many attribution items the configuration lists at most.
MaxAttributions == 3

\* ------------------------------------------------------- path universe --
Root == <<>>
ManifestPath == <<"images", "favicon", "site.webmanifest">>
AttrsPath == <<"attributions.html">>
SitemapPath == <<"sitemap.xml">>

\* Every relative path a tree of the model can hold.
Paths ==
    { Root,
      <<"index.html">>, <<"a.css">>,
      <<"drafts">>, <<"drafts", "c.html">>,
      <<"d.html">>,
      <<"sub">>, <<"sub", "q.html">>, <<"sub", "P.HTML">>, <<"sub", "skip.html">>,
      <<"sub", "drafts">>,
      <<"images">>, <<"images", "favicon">>, ManifestPath,
      AttrsPath, SitemapPath }

Parent(p) == SubSeq(p, 1, Len(p) - 1)

Name(p) == p[Len(p)]

\* pathlib's PurePath.suffix of a file name.
Suffix(name) ==
    CASE name \in {"index.html", "c.html", "d.html", "q.html", "skip.html",
                   "attributions.html"} -> ".html"
      [] name = "P.HTML" -> ".HTML"
      [] name = "a.css" -> ".css"
      [] name = "site.webmanifest" -> ".webmanifest"
      [] name = "sitemap.xml" -> ".xml"
      [] OTHER -> ""

\* str.lower() on a suffix.
Lower(s) == IF s = ".HTML" THEN ".html" ELSE s

\* IsPrefix(d, p): p lies at or beneath d.
IsPrefix(d, p) == Len(d) <= Len(p) /\ SubSeq(p, 1, Len(d)) = d

\* ------------------------------------------------------------ entries ---
NoData == [origin |-> Root, ver |-> 0, form |-> "none", name |-> "", short_name |-> "",
           rendered |-> FALSE, cv |-> -1, entries |-> <<>>, payload |-> <<>>,
           groups |-> <<>>]

Absent == [kind |-> "none", data |-> NoData, mtime |-> 0]

Dir == [kind |-> "dir", data |-> NoData, mtime |-> 0]

\* A source file holding its original text.
SrcFile(p, form) ==
    [kind |-> "file",
     data |-> [origin |-> p, ver |-> 0, form |-> form,
               name |-> IF form = "json" THEN "Old" ELSE "",
               short_name |-> IF form = "json" THEN "O" ELSE "",
               rendered |-> FALSE, cv |-> -1, entries |-> <<>>, payload |-> <<>>,
               groups |-> <<>>],
     mtime |-> 0]

\* A file system entry that is neither a file nor a directory (a broken link).
Other == [kind |-> "other", data |-> NoData, mtime |-> 0]

EmptyTree == [p \in Paths |-> Absent]

Exists(tree, p) == tree[p].kind # "none"

IsDir(tree, p) == tree[p].kind = "dir"

IsFile(tree, p) == tree[p].kind = "file"

\* The entries directly inside directory d.
Entries(tree, d) ==
    { p \in Paths : Len(p) = Len(d) + 1 /\ Parent(p) = d /\ Exists(tree, p) }

\* The two orders in which the model lets a directory list its entries.
PathOrder ==
    << <<"index.html">>, <<"a.css">>, <<"drafts">>, <<"drafts", "c.html">>, <<"d.html">>,
       <<"sub">>, <<"sub", "q.html">>, <<"sub", "P.HTML">>, <<"sub", "skip.html">>,
       <<"sub", "drafts">>,
       <<"images">>, <<"images", "favicon">>, ManifestPath, AttrsPath, SitemapPath >>

Rank(p, order) ==
    LET i == CHOOSE k \in 1..Len(PathOrder) : PathOrder[k] = p IN
    IF order = "asc" THEN i ELSE Len(PathOrder) + 1 - i

RECURSIVE Sorted(_, _)
Sorted(set, order) ==
    IF set = {} THEN <<>>
    ELSE LET first == CHOOSE p \in set : \A q \in set : Rank(p, order) <= Rank(q, order) IN
         <<first>> \o Sorted(set \ {first}, order)

\* tuple(Path.iterdir()): the entries of d, in the order the directory
\* lists them.
IterDir(tree, d, order) == Sorted(Entries(tree, d), order)

\* Path.mkdir(parents=True, exist_ok=True) at time t: the missing
\* directories are made, and a directory that gets a new entry is modified.
MkDirs(tree, d, t) ==
    [p \in Paths |->
        IF IsPrefix(p, d) /\ ~Exists(tree, p) THEN [Dir EXCEPT !.mtime = t]
        ELSE IF \E q \in Paths : /\ q # Root /\ Parent(q) = p
                                 /\ IsPrefix(q, d) /\ ~Exists(tree, q)
             THEN [tree[p] EXCEPT !.mtime = t]
        ELSE tree[p]]

\* shutil.rmtree(d): d and everything beneath it is gone.
RmTree(tree, d) ==
    [p \in Paths |-> IF IsPrefix(d, p) THEN Absent ELSE tree[p]]

\* open(p, "w") and write, or copy2 onto p, at time t: p becomes a file with
\* this content and modification time, and its directory is modified when
\* the file is new.
WriteFile(tree, p, data, mtime, t) ==
    [q \in Paths |->
        IF q = p THEN [kind |-> "file", data |-> data, mtime |-> mtime]
        ELSE IF p # Root /\ q = Parent(p) /\ ~Exists(tree, p)
             THEN [tree[q] EXCEPT !.mtime = t]
        ELSE tree[q]]

\* -------------------------------------------------------- configuration --
\* build.blacklist of the configuration: names the tree walk skips.
copyBlacklist == {"drafts", "skip.html"}

\* site.name and site.nameShort of the configuration.
SiteName == "New"

SiteNameShort == "N"

\* site.rootUrl as configured, a text of tokens; it ends in slashes.
ConfigRootUrl == <<"https://example.com", "/", "/">>

\* str.rstrip("/"): every trailing slash is dropped.
RECURSIVE RStripSlash(_)
RStripSlash(s) ==
    IF s # <<>> /\ s[Len(s)] = "/" THEN RStripSlash(SubSeq(s, 1, Len(s) - 1)) ELSE s

\* BuildTool.rootUrl, set by the constructor.
rootUrl == RStripSlash(ConfigRootUrl)

\* -------------------------------------------------------------- clock ----
\* strftime("%Y-%m-%d") of a UTC time: the calendar day.
Date(t) == t \div TicksPerDay

\* A text with the time of day before the day.
CacheVersionTimeFirst(t) ==
    ((t % TicksPerDay) * DaysPerCentury) + ((t \div TicksPerDay) % DaysPerCentury)

\* strftime("%y%m%d%H%M%S") of a UTC time: the two-digit year makes the
\* text repeat after a century.
CacheVersion(t) == t % (TicksPerDay * DaysPerCentury)

\* ------------------------------------------------------- source trees ----
\* The source trees a run can start from: index.html and a.css are always
\* there; drafts is a blacklisted name (a file or a directory with a page
\* in it); d.html is a directory named like a page; sub holds a page, a
\* page with an upper-case extension, a blacklisted page and a blacklisted
\* file; the manifest is absent, valid JSON or unparsable.
MkSource(aKind, drafts, man) ==
    [p \in Paths |->
        CASE p = Root -> Dir
          [] p = <<"index.html">> -> SrcFile(p, "text")
          [] p = <<"a.css">> -> IF aKind = "file" THEN SrcFile(p, "text") ELSE Other
          [] p = <<"drafts">> -> IF drafts = "dir" THEN Dir ELSE SrcFile(p, "text")
          [] p = <<"drafts", "c.html">> -> IF drafts = "dir" THEN SrcFile(p, "text") ELSE Absent
          [] p = <<"d.html">> -> Dir
          [] p \in {<<"sub">>} -> Dir
          [] p \in {<<"sub", "q.html">>, <<"sub", "P.HTML">>, <<"sub", "skip.html">>,
                    <<"sub", "drafts">>} -> SrcFile(p, "text")
          [] p \in {<<"images">>, <<"images", "favicon">>} -> IF man = "none" THEN Absent ELSE Dir
          [] p = ManifestPath -> IF man = "none" THEN Absent ELSE SrcFile(p, man)
          [] OTHER -> Absent]

SourceTrees ==
    { MkSource(a, d, m) : a \in {"file", "other"}, d \in {"file", "dir"},
                          m \in {"none", "json", "badjson"} }

\* The template root holds the attributions and sitemap templates, or lacks one.
TemplateSets == { {"attributions.html", "sitemap.xml"}, {"sitemap.xml"}, {"attributions.html"} }

\* --------------------------------------------------------------- state ---
VARIABLES
    srcTree,    \* the source directory
    outTree,    \* the output directory
    templates,  \* the names the template root resolves
    listing,    \* the order in which directories list their entries
    pc,         \* where the running tool is
    stack,      \* _processFiles' open calls: the directory and its entries left
    run,        \* how many build runs have started
    now,        \* the clock
    err,        \* the step whose exception ended the current run, or "none"
    ran,        \* the steps of build() the current run has entered
    writtenBy,  \* per output path, the run that last wrote it
    builds,     \* the source and output of the last two builds that completed
    events,     \* _SFSyncWatcher.events: event -> time it was last recorded
    log,        \* the notifications the current watcher has handled
    attributions,  \* BuildTool.attributions: the list of attribution items
    socialLinks,   \* BuildTool.socialLinks: key -> link
    overrides,     \* BuildTool.overrides: key -> value
    tool        \* what the open or sync tool, run after the build tool, did

vars == <<srcTree, outTree, templates, listing, pc, stack, run, now, err, ran,
          writtenBy, builds, events, log, attributions, socialLinks, overrides, tool>>

\* What no step of the build tool changes: its configuration, and what
\* another tool did.
config == <<attributions, socialLinks, overrides, tool>>

\* ------------------------------------------------------------ tree walk --
\* Absolute paths are a directory's own path followed by the relative one.
sourceDir == <<"site", "src">>

outputDir == <<"site", "out">>

\* Path.relative_to(base) of an absolute path beneath base.
RelativeTo(abs, base) == SubSeq(abs, Len(base) + 1, Len(abs))

\* Path.is_relative_to(base).
IsRelativeTo(abs, base) == IsPrefix(base, abs)

\* rootOutput of _processFiles(root), as a path of the output tree:
\* outputDir / rootInput.relative_to(sourceDir).
RootOutput(rootInput) == RelativeTo(sourceDir \o rootInput, sourceDir)

\* outputPath of an entry of the loop: rootOutput / item.name.
OutputPath(rootInput, item) == RootOutput(rootInput) \o <<Name(item)>>

\* _processFiles' frames whose loop has an entry left, outermost first.
RECURSIVE Unwind(_)
Unwind(st) ==
    IF st # <<>> /\ st[Len(st)].items = <<>> THEN Unwind(SubSeq(st, 1, Len(st) - 1)) ELSE st

\* The entry the innermost loop is at, and the directory it lists.
Item == Head(stack[Len(stack)].items)

RootInput == stack[Len(stack)].dir

\* The open frames with the innermost loop moved past its entry.
Advanced(st) == [st EXCEPT ![Len(st)].items = Tail(@)]

\* PurePath.as_posix() of a relative path: its parts joined by "/".
RECURSIVE AsPosix(_)
AsPosix(p) ==
    IF Len(p) = 0 THEN <<>>
    ELSE IF Len(p) = 1 THEN p
    ELSE AsPosix(SubSeq(p, 1, Len(p) - 1)) \o <<"/", p[Len(p)]>>

\* A merge in which the earlier dict keeps its keys.
MergeKeepLower(lower, higher) ==
    [k \in DOMAIN lower \cup DOMAIN higher |->
        IF k \in DOMAIN lower THEN lower[k] ELSE higher[k]]

\* {**lower, **higher}: the keys of both, a key of both with the value of
\* the later one.
Merge(lower, higher) ==
    [k \in DOMAIN lower \cup DOMAIN higher |->
        IF k \in DOMAIN higher THEN higher[k] ELSE lower[k]]

\* The three fields _getStandardJinjaPayload computes, at time t.
FixedFields(pagePath, t) ==
    [k \in {"rootUrl", "pagePath", "cacheVersion"} |->
        CASE k = "rootUrl" -> rootUrl
          [] k = "pagePath" -> pagePath
          [] OTHER -> CacheVersion(t)]

\* _getStandardJinjaPayload: the social links, then the three fields, then
\* the overrides.
GetStandardJinjaPayload(pagePath, t) ==
    Merge(Merge(socialLinks, FixedFields(pagePath, t)), overrides)

\* A page that shows the time of the build outside cacheVersion.
RenderStamped(data, t) ==
    LET payload == GetStandardJinjaPayload(AsPosix(RelativeTo(sourceDir \o data.origin, sourceDir)), t) IN
    [data EXCEPT !.form = "html", !.rendered = TRUE, !.cv = payload["cacheVersion"],
                 !.payload = payload, !.ver = t]

\* _getStandardJinjaPayload(inputPath) and template.render, then
\* minify_html.minify.
Render(data, t) ==
    LET payload == GetStandardJinjaPayload(AsPosix(RelativeTo(sourceDir \o data.origin, sourceDir)), t) IN
    [data EXCEPT !.form = "html", !.rendered = TRUE, !.cv = payload["cacheVersion"],
                 !.payload = payload]

\* A clean that keeps what the output directory holds.
cleanKeep(tree, t) == MkDirs(tree, Root, t)

\* BuildTool.clean: the output directory deleted and made again.
clean(tree, t) == MkDirs(RmTree(tree, Root), Root, t)

\* The build tool is invoked: BuildTool.__init__ makes the output directory.
Construct ==
    /\ run' = run + 1
    /\ outTree' = MkDirs(outTree, Root, now)
    /\ writtenBy' = IF Exists(outTree, Root) THEN writtenBy
                    ELSE [writtenBy EXCEPT ![Root] = run + 1]
    /\ pc' = "constructed"
    /\ err' = "none"
    /\ ran' = {}
    /\ stack' = <<>>
    /\ events' = [e \in {} |-> 0]
    /\ log' = <<>>
    /\ tool' = "none"
    /\ UNCHANGED <<srcTree, templates, attributions, socialLinks, overrides, listing,
                   now, builds>>

\* The first invocation of the tool.
FirstRun ==
    /\ pc = "idle"
    /\ Construct

\* A later invocation, after the last one has ended.
Rerun ==
    /\ pc \in {"done", "stopped", "aborted"}
    /\ run < MaxRuns
    /\ Construct

\* BuildTool._run: self.clean().
Clean ==
    /\ pc = "constructed"
    /\ outTree' = clean(outTree, now)
    /\ writtenBy' = [p \in Paths |->
            IF ~Exists(outTree', p) THEN 0 ELSE IF p = Root THEN run ELSE writtenBy[p]]
    /\ pc' = "cleaned"
    /\ UNCHANGED <<srcTree, templates, config, listing, stack, run, now, err, ran, builds,
                   events, log>>

\* BuildTool.build up to the first entry of the walk: _processFiles(env) makes
\* the output root and lists the source root.
BuildBegin ==
    /\ pc = "cleaned"
    /\ outTree' = MkDirs(outTree, RootOutput(Root), now)
    /\ stack' = Unwind(<<[dir |-> Root, items |-> IterDir(srcTree, Root, listing)]>>)
    /\ pc' = "walk"
    /\ ran' = ran \cup {"walk"}
    /\ UNCHANGED <<srcTree, templates, config, listing, run, now, err, writtenBy, builds,
                   events, log>>

\* A loop without the branch of the blacklist.
ClassifyAll(item) ==
    IF IsDir(srcTree, item) THEN "directory"
    ELSE IF Lower(Suffix(Name(item))) = ".html" THEN "page"
    ELSE IF IsFile(srcTree, item) THEN "file"
    ELSE "other"

\* A loop that looks at the extension before anything else.
ClassifyPageFirst(item) ==
    IF Lower(Suffix(Name(item))) = ".html" THEN "page"
    ELSE IF Name(item) \in copyBlacklist THEN "blacklisted"
    ELSE IF IsDir(srcTree, item) THEN "directory"
    ELSE IF IsFile(srcTree, item) THEN "file"
    ELSE "other"

\* The class of an entry, by the first branch of the loop that takes it.
Classify(item) ==
    IF Name(item) \in copyBlacklist THEN "blacklisted"
    ELSE IF IsDir(srcTree, item) THEN "directory"
    ELSE IF Lower(Suffix(Name(item))) = ".html" THEN "page"
    ELSE IF IsFile(srcTree, item) THEN "file"
    ELSE "other"

\* One entry of the loop is skipped: a blacklisted name, or an entry that is
\* neither a directory nor a file.
WalkSkip ==
    /\ pc = "walk" /\ stack # <<>>
    /\ Classify(Item) \in {"blacklisted", "other"}
    /\ stack' = Unwind(Advanced(stack))
    /\ UNCHANGED <<srcTree, outTree, templates, config, listing, pc, run, now, err, ran,
                   writtenBy, builds, events, log>>

\* A walk that makes the mirror of a directory and does not list it.
WalkRecurseShallow ==
    /\ pc = "walk" /\ stack # <<>>
    /\ Classify(Item) = "directory"
    /\ outTree' = MkDirs(outTree, RootOutput(Item), now)
    /\ writtenBy' = [p \in Paths |->
            IF IsPrefix(p, RootOutput(Item)) /\ ~Exists(outTree, p) THEN run
            ELSE writtenBy[p]]
    /\ stack' = Unwind(Advanced(stack))
    /\ UNCHANGED <<srcTree, templates, config, listing, pc, run, now, err, ran, builds,
                   events, log>>

\* A directory: _processFiles(env, root=inputPath) makes its mirror and lists it.
WalkRecurse ==
    /\ pc = "walk" /\ stack # <<>>
    /\ Classify(Item) = "directory"
    /\ outTree' = MkDirs(outTree, RootOutput(Item), now)
    /\ writtenBy' = [p \in Paths |->
            IF IsPrefix(p, RootOutput(Item)) /\ ~Exists(outTree, p) THEN run
            ELSE writtenBy[p]]
    /\ stack' = Unwind(Append(Advanced(stack),
                              [dir |-> Item, items |-> IterDir(srcTree, Item, listing)]))
    /\ UNCHANGED <<srcTree, templates, config, listing, pc, run, now, err, ran, builds,
                   events, log>>

\* A page: rendered, minified and written to its mirror.
WalkRender ==
    /\ pc = "walk" /\ stack # <<>>
    /\ Classify(Item) = "page"
    /\ IsFile(srcTree, Item)
    /\ LET outputPath == OutputPath(RootInput, Item) IN
        /\ outTree' = WriteFile(MkDirs(outTree, Parent(outputPath), now), outputPath,
                                Render(srcTree[Item].data, now), now, now)
        /\ writtenBy' = [writtenBy EXCEPT ![outputPath] = run]
    /\ stack' = Unwind(Advanced(stack))
    /\ UNCHANGED <<srcTree, templates, config, listing, pc, run, now, err, ran, builds,
                   events, log>>

\* A regular file: copy2 to its mirror, content and modification time.
WalkCopy ==
    /\ pc = "walk" /\ stack # <<>>
    /\ Classify(Item) = "file"
    /\ LET outputPath == OutputPath(RootInput, Item) IN
        /\ outTree' = WriteFile(MkDirs(outTree, Parent(outputPath), now), outputPath,
                                srcTree[Item].data, srcTree[Item].mtime, now)
        /\ writtenBy' = [writtenBy EXCEPT ![outputPath] = run]
    /\ stack' = Unwind(Advanced(stack))
    /\ UNCHANGED <<srcTree, templates, config, listing, pc, run, now, err, ran, builds,
                   events, log>>

\* A build that reports the exception of a finalizer and goes on.
AbortReported(step) ==
    /\ err' = step
    /\ pc' = CASE step = "manifest" -> "attributions"
              [] step = "attributions" -> "sitemap"
              [] OTHER -> "aborted"

\* A walk that reports the exception of an entry and goes on.
AbortEntry(step) ==
    /\ err' = step
    /\ pc' = IF step \in {"render", "copy"} THEN pc ELSE "aborted"

\* The run ends with the exception of step `step`: nothing in build() or
\* _run catches it.
Abort(step) ==
    /\ err' = step
    /\ pc' = "aborted"

\* get_template, render, the write or copy2 raises.
WalkFail ==
    /\ pc = "walk" /\ stack # <<>>
    /\ Classify(Item) \in {"page", "file"}
    /\ Abort(IF Classify(Item) = "page" THEN "render" ELSE "copy")
    /\ UNCHANGED <<srcTree, outTree, templates, config, listing, stack, run, now, ran,
                   writtenBy, builds, events, log>>

\* The outermost loop is over: "Files processed."
WalkDone ==
    /\ pc = "walk" /\ stack = <<>>
    /\ pc' = "manifest"
    /\ UNCHANGED <<srcTree, outTree, templates, config, listing, stack, run, now, err, ran,
                   writtenBy, builds, events, log>>

\* ------------------------------------------------------------ finalizers --
\* jinja2's FileSystemLoader((templateDir, sourceDir)) finds the template.
Resolves(name) == name \in templates \/ IsFile(srcTree, <<name>>)

\* What a generated page (attributions.html, sitemap.xml) holds.
Generated(p, form, t, entries) ==
    LET payload == GetStandardJinjaPayload(<<Name(p)>>, t) IN
    [origin |-> p, ver |-> 0, form |-> form, name |-> "", short_name |-> "",
     rendered |-> TRUE, cv |-> payload["cacheVersion"], entries |-> entries,
     payload |-> payload, groups |-> <<>>]

\* A patcher that writes a manifest of the two names only.
ManifestRewrite ==
    /\ pc = "manifest"
    /\ IsFile(outTree, ManifestPath) /\ outTree[ManifestPath].data.form = "json"
    /\ outTree' = WriteFile(outTree, ManifestPath,
            [NoData EXCEPT !.form = "json", !.name = SiteName, !.short_name = SiteNameShort],
            now, now)
    /\ writtenBy' = [writtenBy EXCEPT ![ManifestPath] = run]
    /\ ran' = ran \cup {"manifest"}
    /\ pc' = "attributions"
    /\ UNCHANGED <<srcTree, templates, config, listing, stack, run, now, err, builds,
                   events, log>>

\* _updateSiteWebManifest with the manifest present and parsable: name and
\* short_name are set and the file is written back.
ManifestUpdate ==
    /\ pc = "manifest"
    /\ IsFile(outTree, ManifestPath) /\ outTree[ManifestPath].data.form = "json"
    /\ outTree' = WriteFile(outTree, ManifestPath,
            [outTree[ManifestPath].data EXCEPT !.name = SiteName, !.short_name = SiteNameShort],
            now, now)
    /\ writtenBy' = [writtenBy EXCEPT ![ManifestPath] = run]
    /\ ran' = ran \cup {"manifest"}
    /\ pc' = "attributions"
    /\ UNCHANGED <<srcTree, templates, config, listing, stack, run, now, err, builds,
                   events, log>>

\* _updateSiteWebManifest with no manifest: reported, nothing written.
ManifestAbsent ==
    /\ pc = "manifest"
    /\ ~Exists(outTree, ManifestPath)
    /\ ran' = ran \cup {"manifest"}
    /\ pc' = "attributions"
    /\ UNCHANGED <<srcTree, outTree, templates, config, listing, stack, run, now, err,
                   writtenBy, builds, events, log>>

\* _updateSiteWebManifest with a manifest json.load cannot parse: it raises.
ManifestFail ==
    /\ pc = "manifest"
    /\ Exists(outTree, ManifestPath) /\ outTree[ManifestPath].data.form # "json"
    /\ ran' = ran \cup {"manifest"}
    /\ Abort("manifest")
    /\ UNCHANGED <<srcTree, outTree, templates, config, listing, stack, run, now,
                   writtenBy, builds, events, log>>

\* The attribution items a configuration can list: AttrItem(category,
\* title, link, filePath), the file under sourceDir/attributions.
AttrItems ==
    { [category |-> c, title |-> t, filePath |-> sourceDir \o <<"attributions", t>>] :
        c \in {"A", "B"}, t \in {"x", "y"} }

\* The lists of attribution items a configuration can hold.
AttributionLists == UNION { [1..n -> AttrItems] : n \in 0..MaxAttributions }

DefaultAttributions ==
    << [category |-> "A", title |-> "x", filePath |-> sourceDir \o <<"attributions", "x">>],
       [category |-> "B", title |-> "y", filePath |-> sourceDir \o <<"attributions", "y">>],
       [category |-> "A", title |-> "y", filePath |-> sourceDir \o <<"attributions", "y">>] >>

\* itemDict of the loop: item.toDict() with the file's path from the source
\* directory and the file's text.
ItemDict(item) ==
    [category |-> item.category, title |-> item.title,
     filePath |-> AsPosix(RelativeTo(item.filePath, sourceDir)),
     content |-> <<"text of", Name(item.filePath)>>]

\* A loop that starts a category's list again at every item.
AddToGroupsAfresh(groups, item) ==
    IF \E i \in 1..Len(groups) : groups[i].category = item.category
    THEN [i \in 1..Len(groups) |->
            IF groups[i].category = item.category
            THEN [groups[i] EXCEPT !.items = <<ItemDict(item)>>]
            ELSE groups[i]]
    ELSE Append(groups, [category |-> item.category, items |-> <<ItemDict(item)>>])

\* One turn of the loop on payloadAttrData, a dict in insertion order: the
\* category is added when it is new, and the item appended to its list.
AddToGroups(groups, item) ==
    IF \E i \in 1..Len(groups) : groups[i].category = item.category
    THEN [i \in 1..Len(groups) |->
            IF groups[i].category = item.category
            THEN [groups[i] EXCEPT !.items = Append(@, ItemDict(item))]
            ELSE groups[i]]
    ELSE Append(groups, [category |-> item.category, items |-> <<ItemDict(item)>>])

\* payloadAttrData after the loop over the items.
RECURSIVE GroupAttributions(_)
GroupAttributions(items) ==
    IF items = <<>> THEN <<>>
    ELSE AddToGroups(GroupAttributions(SubSeq(items, 1, Len(items) - 1)),
                     items[Len(items)])

\* _buildAttributionsPage: the items are grouped and the page is rendered,
\* minified and written.
AttributionsBuild ==
    /\ pc = "attributions"
    /\ Resolves("attributions.html")
    /\ outTree' = WriteFile(outTree, AttrsPath,
                            [Generated(AttrsPath, "html", now, <<>>)
                                EXCEPT !.groups = GroupAttributions(attributions)],
                            now, now)
    /\ writtenBy' = [writtenBy EXCEPT ![AttrsPath] = run]
    /\ ran' = ran \cup {"attributions"}
    /\ pc' = "sitemap"
    /\ UNCHANGED <<srcTree, templates, config, listing, stack, run, now, err, builds,
                   events, log>>

\* _buildAttributionsPage: env.get_template raises TemplateNotFound.
AttributionsFail ==
    /\ pc = "attributions"
    /\ ~Resolves("attributions.html")
    /\ ran' = ran \cup {"attributions"}
    /\ Abort("attributions")
    /\ UNCHANGED <<srcTree, outTree, templates, config, listing, stack, run, now,
                   writtenBy, builds, events, log>>

\* Path.glob("**/*.html") under the output directory: every entry, file or
\* directory, whose name ends in ".html" (the match is case-sensitive).
GlobHtml(tree) ==
    { p \in Paths : p # Root /\ Exists(tree, p) /\ Suffix(Name(p)) = ".html" }

\* One entry of the sitemap payload.
SitemapEntry(tree, htmlFile) ==
    [loc |-> rootUrl \o <<"/">> \o AsPosix(RelativeTo(outputDir \o htmlFile, outputDir)),
     lastmod |-> Date(tree[htmlFile].mtime)]

\* The payload's entries, in the order glob yields the paths.
SitemapEntries(tree) ==
    LET files == Sorted(GlobHtml(tree), listing) IN
    [i \in 1..Len(files) |-> SitemapEntry(tree, files[i])]

\* The last two builds after one more has completed.
Recorded(b) == IF builds = <<>> THEN <<b>> ELSE <<builds[Len(builds)], b>>

\* _buildSitemap, and the end of build()'s steps: "Built to: ...".
SitemapBuild ==
    /\ pc = "sitemap"
    /\ Resolves("sitemap.xml")
    /\ outTree' = WriteFile(outTree, SitemapPath,
                            Generated(SitemapPath, "xml", now, SitemapEntries(outTree)),
                            now, now)
    /\ writtenBy' = [writtenBy EXCEPT ![SitemapPath] = run]
    /\ ran' = ran \cup {"sitemap"}
    /\ builds' = Recorded([src |-> srcTree, out |-> outTree'])
    /\ pc' = "built"
    /\ UNCHANGED <<srcTree, templates, config, listing, stack, run, now, err, events, log>>

\* _buildSitemap: env.get_template raises TemplateNotFound.
SitemapFail ==
    /\ pc = "sitemap"
    /\ ~Resolves("sitemap.xml")
    /\ ran' = ran \cup {"sitemap"}
    /\ Abort("sitemap")
    /\ UNCHANGED <<srcTree, outTree, templates, config, listing, stack, run, now,
                   writtenBy, builds, events, log>>

\* build() returns without the watcher (_doStaticSync is false), and _run
\* with it.
Finish ==
    /\ pc = "built"
    /\ pc' = "done"
    /\ UNCHANGED <<srcTree, outTree, templates, config, listing, stack, run, now, err, ran,
                   writtenBy, builds, events, log>>

\* --------------------------------------------------------------- watcher --
\* str.strip() of a text: the white space at both ends is dropped.
RECURSIVE Strip(_)
Strip(s) ==
    IF s # <<>> /\ s[1] = " " THEN Strip(Tail(s))
    ELSE IF s # <<>> /\ s[Len(s)] = " " THEN Strip(SubSeq(s, 1, Len(s) - 1))
    ELSE s

\* The output files notifications are about.
EventRels == { <<"a.css">>, <<"index.html">>, AttrsPath }

\* The notifications the monitor can hand to the handler. A FileSystemEvent
\* is hashed and compared by its source and destination paths; the monitor
\* builds both from the absolute watched directory.
Events ==
    { [src_path |-> outputDir \o p, dest_path |-> <<>>] : p \in EventRels }
    \cup { [src_path |-> outputDir \o p, dest_path |-> outputDir \o <<"moved.css">>] :
              p \in { <<"index.html">>, AttrsPath } }
    \cup { [src_path |-> <<"site", "elsewhere", "a.css">>, dest_path |-> <<>>] }

\* A watcher started once the attributions page is there.
WatcherStartEarly ==
    /\ pc \in {"sitemap", "built"}
    /\ events' = [e \in {} |-> 0]
    /\ log' = <<>>
    /\ ran' = ran \cup {"watch"}
    /\ pc' = "watching"
    /\ UNCHANGED <<srcTree, outTree, templates, config, listing, stack, run, now, err,
                   writtenBy, builds>>

\* _startStaticFileSyncWatcher (_doStaticSync is true): the handler is made
\* and the observer started.
WatcherStart ==
    /\ pc = "built"
    /\ events' = [e \in {} |-> 0]
    /\ log' = <<>>
    /\ ran' = ran \cup {"watch"}
    /\ pc' = "watching"
    /\ UNCHANGED <<srcTree, outTree, templates, config, listing, stack, run, now, err,
                   writtenBy, builds>>

\* A debounce that discards the notifications older than bufferDelay.
BufferedLate(event) ==
    event \in DOMAIN events /\ (now - events[event]) > BufferDelay

\* on_modified's debounce: the event is in self.events and less than
\* bufferDelay old.
Buffered(event) ==
    event \in DOMAIN events /\ (now - events[event]) < BufferDelay

\* A handler without the check that the paired path exists.
AdmissionUnpaired(event, watchDir) ==
    IF Strip(event.dest_path) # <<>> THEN "moved"
    ELSE IF ~IsRelativeTo(event.src_path, watchDir) THEN "outside"
    ELSE IF ~IsFile(outTree, RelativeTo(event.src_path, watchDir)) THEN "copyfail"
    ELSE "copied"

\* A handler without the check of the destination path.
AdmissionMoved(event, watchDir) ==
    IF ~IsRelativeTo(event.src_path, watchDir) THEN "outside"
    ELSE IF ~Exists(srcTree, RelativeTo(event.src_path, watchDir)) THEN "unpaired"
    ELSE IF ~IsFile(outTree, RelativeTo(event.src_path, watchDir)) THEN "copyfail"
    ELSE "copied"

\* What on_modified does with an event that passed the debounce.
Admission(event, watchDir) ==
    IF Strip(event.dest_path) # <<>> THEN "moved"
    ELSE IF ~IsRelativeTo(event.src_path, watchDir) THEN "outside"
    ELSE IF ~Exists(srcTree, RelativeTo(event.src_path, watchDir)) THEN "unpaired"
    ELSE IF ~IsFile(outTree, RelativeTo(event.src_path, watchDir)) THEN "copyfail"
    ELSE "copied"

\* copy2(srcPath, pairedFilePath): onto the paired file, or into it when it
\* is a directory.
CopyBack(rel) ==
    LET target == IF IsDir(srcTree, rel) THEN rel \o <<Name(rel)>> ELSE rel IN
    IF target \in Paths
    THEN WriteFile(srcTree, target, outTree[rel].data, outTree[rel].mtime, now)
    ELSE srcTree

\* A handler whose observer thread is still there after the wait loop ended.
OnModifiedUnjoined(event) ==
    /\ pc \in {"watching", "stopped"}
    /\ Len(log) < MaxEvents
    /\ (event.dest_path = <<>> /\ IsRelativeTo(event.src_path, outputDir))
          => IsFile(outTree, RelativeTo(event.src_path, outputDir))
    /\ IF Buffered(event)
       THEN /\ log' = Append(log, [event |-> event, time |-> now, outcome |-> "buffered"])
            /\ UNCHANGED <<events, srcTree>>
       ELSE LET outcome == Admission(event, outputDir) IN
            /\ events' = (event :> now) @@ events
            /\ log' = Append(log, [event |-> event, time |-> now, outcome |-> outcome])
            /\ srcTree' = IF outcome = "copied"
                          THEN CopyBack(RelativeTo(event.src_path, outputDir))
                          ELSE srcTree
    /\ UNCHANGED <<outTree, templates, config, listing, pc, stack, run, now, err, ran,
                   writtenBy, builds>>

\* A handler that also stamps the output file it has copied.
OnModifiedTouch(event) ==
    /\ pc = "watching"
    /\ Len(log) < MaxEvents
    /\ (event.dest_path = <<>> /\ IsRelativeTo(event.src_path, outputDir))
          => IsFile(outTree, RelativeTo(event.src_path, outputDir))
    /\ IF Buffered(event)
       THEN /\ log' = Append(log, [event |-> event, time |-> now, outcome |-> "buffered"])
            /\ UNCHANGED <<events, srcTree, outTree>>
       ELSE LET outcome == Admission(event, outputDir) IN
            /\ events' = (event :> now) @@ events
            /\ log' = Append(log, [event |-> event, time |-> now, outcome |-> outcome])
            /\ srcTree' = IF outcome = "copied"
                          THEN CopyBack(RelativeTo(event.src_path, outputDir))
                          ELSE srcTree
            /\ outTree' = IF outcome = "copied"
                          THEN [outTree EXCEPT
                                  ![RelativeTo(event.src_path, outputDir)].mtime = now + 1]
                          ELSE outTree
    /\ UNCHANGED <<templates, config, listing, pc, stack, run, now, err, ran,
                   writtenBy, builds>>

\* A handler that records the time of a notification it discards.
OnModifiedRefresh(event) ==
    /\ pc = "watching"
    /\ Len(log) < MaxEvents
    /\ (event.dest_path = <<>> /\ IsRelativeTo(event.src_path, outputDir))
          => IsFile(outTree, RelativeTo(event.src_path, outputDir))
    /\ events' = (event :> now) @@ events
    /\ IF Buffered(event)
       THEN /\ log' = Append(log, [event |-> event, time |-> now, outcome |-> "buffered"])
            /\ UNCHANGED srcTree
       ELSE LET outcome == Admission(event, outputDir) IN
            /\ log' = Append(log, [event |-> event, time |-> now, outcome |-> outcome])
            /\ srcTree' = IF outcome = "copied"
                          THEN CopyBack(RelativeTo(event.src_path, outputDir))
                          ELSE srcTree
    /\ UNCHANGED <<outTree, templates, config, listing, pc, stack, run, now, err, ran,
                   writtenBy, builds>>

\* _SFSyncWatcher.on_modified(event), the whole handler; the monitor hands
\* it one notification at a time. A modify notification without a
\* destination is about a file that is in the watched directory.
OnModified(event) ==
    /\ pc = "watching"
    /\ Len(log) < MaxEvents
    /\ (event.dest_path = <<>> /\ IsRelativeTo(event.src_path, outputDir))
          => IsFile(outTree, RelativeTo(event.src_path, outputDir))
    /\ IF Buffered(event)
       THEN /\ log' = Append(log, [event |-> event, time |-> now, outcome |-> "buffered"])
            /\ UNCHANGED <<events, srcTree>>
       ELSE LET outcome == Admission(event, outputDir) IN
            /\ events' = (event :> now) @@ events
            /\ log' = Append(log, [event |-> event, time |-> now, outcome |-> outcome])
            /\ srcTree' = IF outcome = "copied"
                          THEN CopyBack(RelativeTo(event.src_path, outputDir))
                          ELSE srcTree
    /\ UNCHANGED <<outTree, templates, config, listing, pc, stack, run, now, err, ran,
                   writtenBy, builds>>

\* The notification of a modification in place of output file p.
InPlaceEvent(p) == [src_path |-> outputDir \o p, dest_path |-> <<>>]

\* The output files an editor modifies while the watcher runs.
EditedRels == { <<"a.css">> }

\* An editor saves new content to output file p, in place, while the
\* watcher runs; the log keeps when.
EditOutput(p) ==
    /\ pc = "watching"
    /\ Len(log) < MaxEvents
    /\ IsFile(outTree, p)
    /\ outTree' = [outTree EXCEPT ![p].data.ver = @ + 1, ![p].mtime = now]
    /\ log' = Append(log, [event |-> InPlaceEvent(p), time |-> now, outcome |-> "edited"])
    /\ UNCHANGED <<srcTree, templates, config, listing, pc, stack, run, now, err, ran,
                   writtenBy, builds, events>>

\* The handler has found the paired path and has not yet called copy2.
InFlight == log # <<>> /\ log[Len(log)].outcome = "admitted"

\* on_modified up to the check of the paired path (lines 49-85): the
\* debounce, the time recorded, the three rejections; a notification that
\* passes them is admitted, and copy2 is still to come.
OnModifiedChecks(event) ==
    /\ pc = "watching"
    /\ Len(log) < MaxEvents
    /\ ~InFlight
    /\ (event.dest_path = <<>> /\ IsRelativeTo(event.src_path, outputDir))
          => IsFile(outTree, RelativeTo(event.src_path, outputDir))
    /\ IF Buffered(event)
       THEN /\ log' = Append(log, [event |-> event, time |-> now, outcome |-> "buffered"])
            /\ UNCHANGED events
       ELSE LET outcome == Admission(event, outputDir) IN
            /\ events' = (event :> now) @@ events
            /\ log' = Append(log, [event |-> event, time |-> now,
                                   outcome |-> IF outcome = "copied" THEN "admitted"
                                               ELSE outcome])
    /\ UNCHANGED <<srcTree, outTree, templates, config, listing, pc, stack, run, now, err,
                   ran, writtenBy, builds>>

\* on_modified's copy2(srcPath, pairedFilePath) (line 88) for the admitted
\* notification: the paired file is overwritten, or made when it is not
\* there any more.
OnModifiedCopies ==
    /\ pc = "watching"
    /\ InFlight
    /\ LET rel == RelativeTo(log[Len(log)].event.src_path, outputDir) IN
        /\ srcTree' = CopyBack(rel)
        /\ log' = [log EXCEPT ![Len(log)].outcome =
                        IF Exists(srcTree, rel) THEN "copied" ELSE "created"]
    /\ UNCHANGED <<outTree, templates, config, listing, pc, stack, run, now, err, ran,
                   writtenBy, builds, events>>

\* Something else deletes a file of the source tree while the watcher runs.
DeleteSource(p) ==
    /\ pc = "watching"
    /\ IsFile(srcTree, p)
    /\ srcTree' = [srcTree EXCEPT ![p] = Absent, ![Parent(p)].mtime = now]
    /\ UNCHANGED <<outTree, templates, config, listing, pc, stack, run, now, err, ran,
                   writtenBy, builds, events, log>>

\* KeyboardInterrupt in the wait loop: the observer is stopped and joined;
\* join() waits for the handler that is running.
Interrupt ==
    /\ pc = "watching"
    /\ ~InFlight
    /\ pc' = "stopped"
    /\ UNCHANGED <<srcTree, outTree, templates, config, listing, stack, run, now, err, ran,
                   writtenBy, builds, events, log>>

\* ------------------------------------------------------- the other tools --
\* An open tool that does not look for index.html.
OpenToolRunAlways ==
    /\ pc \in {"idle", "done", "stopped", "aborted"}
    /\ tool = "none"
    /\ tool' = "opened"
    /\ UNCHANGED <<srcTree, outTree, templates, attributions, socialLinks, overrides,
                   listing, pc, stack, run, now, err, ran, writtenBy, builds, events, log>>

\* OpenTool._run, while no build runs: the browser is opened on
\* outputDir/index.html when that is a file, else "not been built yet".
OpenToolRun ==
    /\ pc \in {"idle", "done", "stopped", "aborted"}
    /\ tool = "none"
    /\ tool' = IF IsFile(outTree, <<"index.html">>) THEN "opened" ELSE "open: not built"
    /\ UNCHANGED <<srcTree, outTree, templates, attributions, socialLinks, overrides,
                   listing, pc, stack, run, now, err, ran, writtenBy, builds, events, log>>

\* A sync tool that looks for the watched directory only.
SyncToolRunUnchecked ==
    /\ pc \in {"idle", "done", "stopped", "aborted"}
    /\ tool = "none"
    /\ tool' = IF IsDir(outTree, Root) THEN "watching" ELSE "sync: not built"
    /\ UNCHANGED <<srcTree, outTree, templates, attributions, socialLinks, overrides,
                   listing, pc, stack, run, now, err, ran, writtenBy, builds, events, log>>

\* SyncTool._run, while no build runs: watch() starts the observer when the
\* output and the source directory are directories; else FileNotFoundError
\* is caught and "not been built yet" printed.
SyncToolRun ==
    /\ pc \in {"idle", "done", "stopped", "aborted"}
    /\ tool = "none"
    /\ tool' = IF IsDir(outTree, Root) /\ IsDir(srcTree, Root)
               THEN "watching" ELSE "sync: not built"
    /\ UNCHANGED <<srcTree, outTree, templates, attributions, socialLinks, overrides,
                   listing, pc, stack, run, now, err, ran, writtenBy, builds, events, log>>

\* Someone removes the source directory once the build has read it, before
\* a watcher is started.
RemoveSource ==
    /\ pc \in {"built", "done"}
    /\ tool = "none"
    /\ IsDir(srcTree, Root)
    /\ srcTree' = RmTree(srcTree, Root)
    /\ UNCHANGED <<outTree, templates, config, listing, pc, stack, run, now, err, ran,
                   writtenBy, builds, events, log>>

\* The clock advances before clean() and between the walk and the finalizers.
Tick ==
    /\ pc \in {"constructed", "manifest"}
    /\ now < MaxTime
    /\ now' = now + 1
    /\ UNCHANGED <<srcTree, outTree, templates, config, listing, pc, stack, run, err, ran,
                   writtenBy, builds, events, log>>

\* The clock advances while the watcher waits.
WatchTick ==
    /\ pc = "watching"
    /\ now < MaxTime
    /\ now' = now + 1
    /\ UNCHANGED <<srcTree, outTree, templates, config, listing, pc, stack, run, err, ran,
                   writtenBy, builds, events, log>>

\* --------------------------------------------------------- specification --
InitCommon ==
    /\ outTree = EmptyTree
    /\ pc = "idle"
    /\ stack = <<>>
    /\ run = 0
    /\ now = 0
    /\ err = "none"
    /\ ran = {}
    /\ writtenBy = [p \in Paths |-> 0]
    /\ builds = <<>>
    /\ events = [e \in {} |-> 0]
    /\ log = <<>>
    /\ tool = "none"

\* One configuration: three attribution items in two categories, one
\* social link, no override.
InitConfig ==
    /\ attributions = DefaultAttributions
    /\ socialLinks = [k \in {"substack"} |-> "social"]
    /\ overrides = [k \in {} |-> "override"]

\* The build tool, run again and again, over every source tree.
Init ==
    /\ srcTree \in SourceTrees
    /\ templates \in TemplateSets
    /\ listing \in {"asc", "desc"}
    /\ InitConfig
    /\ InitCommon

Build ==
    \/ Clean
    \/ BuildBegin
    \/ WalkSkip
    \/ WalkRecurse
    \/ WalkRender
    \/ WalkCopy
    \/ WalkFail
    \/ WalkDone
    \/ ManifestUpdate
    \/ AttributionsBuild
    \/ SitemapBuild
    \/ WatcherStart
    \/ Interrupt
    \/ WatchTick

Next ==
    \/ FirstRun
    \/ Rerun
    \/ Build
    \/ ManifestAbsent
    \/ ManifestFail
    \/ AttributionsFail
    \/ SitemapFail
    \/ Finish
    \/ Tick

Spec == Init /\ [][Next]_vars

\* The build tool run again and again, and between its runs the open tool
\* and the sync tool.
NextTools ==
    \/ Next
    \/ OpenToolRun
    \/ SyncToolRun

SpecTools == Init /\ [][NextTools]_vars

\* One invocation of the build tool with --sync, on one source tree, and
\* the notifications its watcher handles.
InitSync ==
    /\ srcTree = MkSource("file", "dir", "json")
    /\ templates = {"attributions.html", "sitemap.xml"}
    /\ listing = "asc"
    /\ InitConfig
    /\ InitCommon

NextSync ==
    \/ FirstRun
    \/ Build
    \/ \E event \in Events : OnModified(event)

SpecSync == InitSync /\ [][NextSync]_vars

\* One invocation of the build tool, with or without --sync, the source
\* directory removed behind it or not, the notifications its watcher
\* handles, and the sync tool run after it.
NextStart ==
    \/ FirstRun
    \/ Build
    \/ Finish
    \/ RemoveSource
    \/ SyncToolRun
    \/ \E p \in EditedRels : OnModified(InPlaceEvent(p))

SpecStart == InitSync /\ [][NextStart]_vars

\* The modifications of the output file made from outside, and the
\* notifications handled for it.
Modifications(p) ==
    { i \in 1..Len(log) : log[i].event = InPlaceEvent(p) /\ log[i].outcome = "edited" }

Notifications(p) ==
    { i \in 1..Len(log) : log[i].event = InPlaceEvent(p) /\ log[i].outcome # "edited" }

\* One invocation of the build tool with --sync, an editor that modifies a
\* static file of the output, and the monitor, which hands the handler one
\* notification for each modification under the watched directory.
NextFeed ==
    \/ FirstRun
    \/ Build
    \/ \E p \in EditedRels : EditOutput(p)
    \/ \E p \in EditedRels :
          /\ Cardinality(Notifications(p)) < Cardinality(Modifications(p))
          /\ OnModified(InPlaceEvent(p))

SpecFeed == InitSync /\ [][NextFeed]_vars

\* One invocation of the build tool with --sync, the handler in its two
\* steps, and something else that deletes source files between them.
NextRace ==
    \/ FirstRun
    \/ Build
    \/ \E p \in EditedRels : OnModifiedChecks(InPlaceEvent(p))
    \/ OnModifiedCopies
    \/ \E p \in EditedRels : DeleteSource(p)

SpecRace == InitSync /\ [][NextRace]_vars

\* One invocation of the build tool with --sync, an editor that modifies a
\* static file of the output, and the notifications for that file.
NextEdit ==
    \/ FirstRun
    \/ Build
    \/ \E p \in EditedRels : EditOutput(p)
    \/ \E p \in EditedRels : OnModified(InPlaceEvent(p))

SpecEdit == InitSync /\ [][NextEdit]_vars

\* One invocation of the build tool on one source tree, over every list of
\* attribution items.
InitAttr ==
    /\ srcTree = MkSource("file", "dir", "json")
    /\ templates = {"attributions.html", "sitemap.xml"}
    /\ listing = "asc"
    /\ attributions \in AttributionLists
    /\ socialLinks = [k \in {"substack"} |-> "social"]
    /\ overrides = [k \in {} |-> "override"]
    /\ InitCommon

NextAttr ==
    \/ FirstRun
    \/ Build

SpecAttr == InitAttr /\ [][NextAttr]_vars

\* The keys the social links and the overrides of a configuration can have.
PayloadKeys == {"substack", "rootUrl", "pagePath", "cacheVersion"}

\* The dicts over some of these keys, each key with the value v.
ConfigDicts(v) == UNION { [keys -> {v}] : keys \in SUBSET PayloadKeys }

\* One invocation of the build tool on one source tree, over every choice
\* of social links and overrides.
InitPayload ==
    /\ srcTree = MkSource("file", "dir", "json")
    /\ templates = {"attributions.html", "sitemap.xml"}
    /\ listing = "asc"
    /\ attributions = DefaultAttributions
    /\ socialLinks \in ConfigDicts("social")
    /\ overrides \in ConfigDicts("override")
    /\ InitCommon

NextPayload ==
    \/ FirstRun
    \/ Build

SpecPayload == InitPayload /\ [][NextPayload]_vars

\* ------------------------------------------------------------- the watcher --
\* The notification is a modification in place of a path of the watched
\* directory.
InPlace(event) ==
    event.dest_path = <<>> /\ IsRelativeTo(event.src_path, outputDir)

\* The notification's path has its pair in the source tree.
Paired(event) == Exists(srcTree, RelativeTo(event.src_path, outputDir))

\* The step hands this notification to the handler.
Handles(event) ==
    Len(log') = Len(log) + 1 /\ log'[Len(log')].event = event

\* C1: of two notifications with the same identity that arrive less than
\* bufferDelay apart, for a modification in place whose paired file exists,
\* at most one is copied back; when the earlier of the two passed the
\* debounce (as the first notification of an identity always does), it is
\* copied and the later one is discarded, so exactly one copy is made.
C1_OneCopyPerWindow ==
    \A i, j \in 1..Len(log) :
        ( /\ i < j
          /\ log[i].event = log[j].event
          /\ log[j].time - log[i].time < BufferDelay
          /\ InPlace(log[i].event) /\ Paired(log[i].event) )
        => /\ ~(log[i].outcome = "copied" /\ log[j].outcome = "copied")
           /\ (log[i].outcome # "buffered")
                 => (log[i].outcome = "copied" /\ log[j].outcome = "buffered")
           /\ (\A k \in 1..(i - 1) : log[k].event # log[i].event)
                 => log[i].outcome = "copied"

\* Two notifications for one paired file, one tick apart: one copy.
C1_Witness ==
    \E i, j \in 1..Len(log) :
        /\ i < j
        /\ log[i].event = log[j].event
        /\ log[i].time < log[j].time
        /\ log[j].time - log[i].time < BufferDelay
        /\ InPlace(log[i].event) /\ Paired(log[i].event)
        /\ log[i].outcome = "copied" /\ log[j].outcome = "buffered"

\* C2: handling a modification in place of a path of the watched directory
\* whose pair does not exist in the source tree copies nothing: the
\* notification is rejected (or discarded by the debounce) and both trees
\* are as they were.
C2_UnpairedRejected ==
    [][ \A event \in Events :
          (Handles(event) /\ InPlace(event) /\ ~Paired(event))
          => /\ log'[Len(log')].outcome \in {"unpaired", "buffered"}
             /\ srcTree' = srcTree
             /\ outTree' = outTree ]_vars

\* A modification of attributions.html, which the source tree does not
\* have, was rejected.
C2_Witness ==
    \E i \in 1..Len(log) :
        /\ InPlace(log[i].event) /\ ~Paired(log[i].event)
        /\ IsFile(outTree, RelativeTo(log[i].event.src_path, outputDir))
        /\ log[i].outcome = "unpaired"

\* C3: handling a notification that carries a destination path copies
\* nothing, whether or not the path has its pair in the source tree: the
\* notification is rejected (or discarded by the debounce) and the source
\* tree is as it was.
C3_MovedRejected ==
    [][ \A event \in Events :
          (Handles(event) /\ event.dest_path # <<>>)
          => /\ log'[Len(log')].outcome \in {"moved", "buffered"}
             /\ srcTree' = srcTree ]_vars

\* A move of a paired file and a move of an unpaired file were both rejected.
C3_Witness ==
    \E i, j \in 1..Len(log) :
        /\ log[i].event.dest_path # <<>> /\ Paired(log[i].event)
        /\ log[j].event.dest_path # <<>> /\ ~Paired(log[j].event)
        /\ log[i].outcome = "moved" /\ log[j].outcome = "moved"

\* --------------------------------------------------------------- the walk --
\* A component of the path is a blacklisted name.
Blacklisted(p) == \E k \in 1..Len(p) : p[k] \in copyBlacklist

\* The walk of this run is over and no step of the build has failed.
Walked == pc \in {"manifest", "attributions", "sitemap", "built", "done", "watching", "stopped"}

\* C4: after the walk no source entry with a blacklisted name has its
\* mirror in the output tree, and neither has anything beneath a
\* blacklisted directory.
C4_BlacklistAbsent ==
    Walked => \A p \in Paths :
                 (Exists(srcTree, p) /\ Blacklisted(p)) => ~Exists(outTree, p)

\* The walk is over a source tree with a blacklisted directory drafts that
\* holds c.html, and a blacklisted file sub/drafts.
C4_Witness ==
    /\ pc = "manifest"
    /\ IsDir(srcTree, <<"drafts">>) /\ IsFile(srcTree, <<"drafts", "c.html">>)
    /\ IsFile(srcTree, <<"sub", "drafts">>)
    /\ IsFile(outTree, <<"sub", "q.html">>)

\* C5: when the walk has succeeded, the paths of the output tree are the
\* output root and the mirrors of the files and directories of the source
\* tree that have no blacklisted component, each of the same kind, and no
\* other path.
C5_OutputMirrorsSource ==
    pc = "manifest" =>
        \A p \in Paths \ {Root} :
            /\ Exists(outTree, p)
                  <=> (srcTree[p].kind \in {"file", "dir"} /\ ~Blacklisted(p))
            /\ Exists(outTree, p) => outTree[p].kind = srcTree[p].kind

\* The walk has succeeded on a tree with nested files, blacklisted entries
\* and an entry that is neither a file nor a directory.
C5_Witness ==
    /\ pc = "manifest"
    /\ srcTree[<<"a.css">>].kind = "other"
    /\ IsDir(srcTree, <<"drafts">>)
    /\ IsFile(outTree, ManifestPath)
    /\ IsFile(outTree, <<"sub", "P.HTML">>)

\* ----------------------------------------------------------- idempotence --
\* A build's entry without its modification time and cacheVersion.
Masked(e) ==
    [kind |-> e.kind,
     data |-> [e.data EXCEPT !.cv = 0,
                             !.payload = [k \in DOMAIN @ |->
                                            IF k = "cacheVersion" THEN 0 ELSE @[k]]]]

\* The same, and without the lastmod of the sitemap's entries.
MaskedDates(e) ==
    [kind |-> e.kind,
     data |-> [e.data EXCEPT !.cv = 0,
                             !.payload = [k \in DOMAIN @ |->
                                            IF k = "cacheVersion" THEN 0 ELSE @[k]],
                             !.entries = [i \in 1..Len(@) |-> @[i].loc]]]

\* Two builds have completed, on the same source tree.
TwoBuilds == Len(builds) = 2 /\ builds[1].src = builds[2].src

\* C6, as claimed: two builds of an unchanged source tree give output trees
\* with the same paths and the same content but for cacheVersion, the loc
\* and lastmod of the sitemap's entries included.
C6_Idempotent ==
    TwoBuilds => \A p \in Paths : Masked(builds[1].out[p]) = Masked(builds[2].out[p])

\* C6, as the code has it: two builds of an unchanged source tree give
\* output trees with the same paths and the same content but for
\* cacheVersion and for the lastmod of the sitemap's entries; the
\* sitemaps have the same loc, in the same order.
C6_IdempotentButDates ==
    TwoBuilds =>
        \A p \in Paths : MaskedDates(builds[1].out[p]) = MaskedDates(builds[2].out[p])

\* Two builds of one source tree, at times with different cacheVersion and
\* on different days.
C6_Witness ==
    /\ TwoBuilds
    /\ builds[1].out[<<"index.html">>].data.cv # builds[2].out[<<"index.html">>].data.cv
    /\ builds[1].out[SitemapPath].data.entries # builds[2].out[SitemapPath].data.entries

\* ------------------------------------------------------------ finalizers --
\* C7, as claimed: a finalizer that fails does not stop the ones after it,
\* and sitemap.xml is written after a failure of the manifest patcher or of
\* the attributions builder.
C7_FinalizersIndependent ==
    (err \in {"manifest", "attributions"} /\ Resolves("sitemap.xml"))
        => (pc = "aborted" => ("sitemap" \in ran /\ IsFile(outTree, SitemapPath)))

\* C7, as the code has it: the finalizers run in the order manifest,
\* attributions, sitemap; the exception of one ends the build, so those
\* after it do not run, sitemap.xml is not written and the watcher is not
\* started. Only a manifest that is absent is reported and passed over.
C7_FinalizerFailureEndsBuild ==
    /\ err = "manifest" =>
          /\ pc = "aborted"
          /\ ran \cap {"attributions", "sitemap", "watch"} = {}
          /\ ~Exists(outTree, AttrsPath) /\ ~Exists(outTree, SitemapPath)
    /\ err = "attributions" =>
          /\ pc = "aborted"
          /\ ran \cap {"sitemap", "watch"} = {}
          /\ ~Exists(outTree, SitemapPath)
    /\ err = "sitemap" =>
          /\ pc = "aborted"
          /\ "watch" \notin ran
          /\ ~Exists(outTree, SitemapPath)
    /\ "sitemap" \in ran => "attributions" \in ran
    /\ "attributions" \in ran => "manifest" \in ran
    /\ "manifest" \in ran => "walk" \in ran
    /\ (pc \in {"attributions", "sitemap"} /\ ~Exists(outTree, ManifestPath))
          => err = "none"

\* The manifest was patched, the attributions template is missing, and the
\* build has ended without a sitemap whose template is there.
C7_Witness ==
    /\ pc = "aborted" /\ err = "attributions"
    /\ IsFile(outTree, ManifestPath) /\ outTree[ManifestPath].data.name = SiteName
    /\ Resolves("sitemap.xml")
    /\ ~Exists(outTree, SitemapPath)

\* C8: when rendering or copying an entry fails, the build is over: no
\* later entry of the walk gets its mirror, no finalizer runs, the watcher
\* is not started, and nothing more is done in this run.
C8_WalkFailureAborts ==
    /\ [](err \in {"render", "copy"} =>
            /\ pc = "aborted"
            /\ ran = {"walk"}
            /\ ~Exists(outTree, AttrsPath) /\ ~Exists(outTree, SitemapPath)
            /\ IsFile(outTree, ManifestPath)
                  => outTree[ManifestPath].data = srcTree[ManifestPath].data
            /\ \A k \in 1..Len(stack) : \A i \in 1..Len(stack[k].items) :
                  (k # Len(stack) \/ i # 1)
                  => ~Exists(outTree, OutputPath(stack[k].dir, stack[k].items[i])))
    /\ [][(err \in {"render", "copy"} /\ run' = run)
            => UNCHANGED <<outTree, srcTree, stack, ran, pc, err>>]_vars

\* A render failed after an earlier entry was written, with entries of the
\* walk still to come.
C8_Witness ==
    /\ pc = "aborted" /\ err = "render"
    /\ \E p \in Paths : IsFile(outTree, p)
    /\ Len(stack[1].items) > 1

\* C9: a run starts from an output directory deleted and made again, and
\* from then on, whether it succeeds or fails, everything in the output
\* tree was written by this run.
C9_NoLeftovers ==
    /\ pc = "cleaned" => \A p \in Paths : Exists(outTree, p) <=> p = Root
    /\ pc \notin {"idle", "constructed"} =>
          \A p \in Paths : Exists(outTree, p) => writtenBy[p] = run

\* The second run has failed in its walk, after a first run that wrote a
\* sitemap: the sitemap is gone and something was written again.
C9_Witness ==
    /\ run = 2 /\ pc = "aborted" /\ err \in {"render", "copy"}
    /\ builds # <<>>
    /\ ~Exists(outTree, SitemapPath)
    /\ \E p \in Paths : IsFile(outTree, p) /\ writtenBy[p] = 2

\* --------------------------------------------------------------- sitemap --
\* The files of the tree whose name ends in ".html".
HtmlFiles(tree) ==
    { p \in Paths : IsFile(tree, p) /\ Suffix(Name(p)) = ".html" }

\* C10: the sitemap just written has one entry for each .html file of the
\* output tree, with loc = rootUrl + "/" + the slash-joined path of the
\* file from the output root, and no other entry.
C10_SitemapEntries ==
    pc = "built" =>
        LET entries == outTree[SitemapPath].data.entries IN
        /\ Len(entries) = Cardinality(HtmlFiles(outTree))
        /\ \A p \in HtmlFiles(outTree) :
              Cardinality({ i \in 1..Len(entries) :
                              entries[i].loc = rootUrl \o <<"/">> \o AsPosix(p) }) = 1

\* The sitemap just written has an entry for the directory d.html.
C10_Witness ==
    /\ pc = "built"
    /\ IsDir(outTree, <<"d.html">>)
    /\ \E i \in 1..Len(outTree[SitemapPath].data.entries) :
          outTree[SitemapPath].data.entries[i].loc = rootUrl \o <<"/", "d.html">>

\* What the sitemap holds: one entry for each file or directory of the
\* output tree whose name ends in ".html".
C10_OnePerGlobMatch ==
    pc = "built" =>
        LET entries == outTree[SitemapPath].data.entries IN
        /\ Len(entries) = Cardinality(GlobHtml(outTree))
        /\ \A p \in GlobHtml(outTree) :
              Cardinality({ i \in 1..Len(entries) :
                              entries[i].loc = rootUrl \o <<"/">> \o AsPosix(p) }) = 1

\* -------------------------------------------------------------- manifest --
\* C11: the manifest patcher, given a manifest it can parse, sets name and
\* short_name to the configured names and leaves every other field of the
\* manifest, and every other path of the output tree, as it was; given no
\* manifest it writes nothing and the build goes on to the attributions
\* page.
C11_ManifestPatch ==
    [][ (pc = "manifest" /\ pc' # "manifest") =>
          /\ (IsFile(outTree, ManifestPath) /\ outTree[ManifestPath].data.form = "json")
                => /\ IsFile(outTree', ManifestPath)
                   /\ outTree'[ManifestPath].data.name = SiteName
                   /\ outTree'[ManifestPath].data.short_name = SiteNameShort
                   /\ \A f \in DOMAIN outTree[ManifestPath].data \ {"name", "short_name"} :
                         outTree'[ManifestPath].data[f] = outTree[ManifestPath].data[f]
                   /\ \A p \in Paths \ {ManifestPath} : outTree'[p] = outTree[p]
                   /\ pc' = "attributions"
          /\ ~Exists(outTree, ManifestPath)
                => /\ outTree' = outTree
                   /\ pc' = "attributions"
                   /\ err' = "none" ]_vars

\* A manifest with the names "Old" and "O" was patched: it has the
\* configured names and the rest of what the source manifest holds.
C11_Witness ==
    /\ pc = "attributions"
    /\ IsFile(outTree, ManifestPath)
    /\ srcTree[ManifestPath].data.name = "Old" /\ srcTree[ManifestPath].data.short_name = "O"
    /\ outTree[ManifestPath].data
          = [srcTree[ManifestPath].data EXCEPT !.name = SiteName, !.short_name = SiteNameShort]
    /\ outTree[ManifestPath].data.origin = ManifestPath

\* ---------------------------------------------------------- attributions --
\* C12: the attributions page has the items grouped by category: the
\* categories in the order of their first item in the list, each category
\* once, and under it the items of that category in the order of the list,
\* so every item of the list is there once.
C12_GroupedInOrder ==
    IsFile(outTree, AttrsPath) =>
        LET groups == outTree[AttrsPath].data.groups
            dicts == [i \in 1..Len(attributions) |-> ItemDict(attributions[i])]
            First(c) == CHOOSE i \in 1..Len(attributions) :
                            /\ attributions[i].category = c
                            /\ \A j \in 1..(i - 1) : attributions[j].category # c
        IN  /\ { groups[i].category : i \in 1..Len(groups) }
                  = { attributions[i].category : i \in 1..Len(attributions) }
            /\ \A i \in 1..Len(groups) :
                  LET Of(d) == d.category = groups[i].category IN
                  groups[i].items = SelectSeq(dicts, Of)
            /\ \A i, j \in 1..Len(groups) :
                  i < j => /\ groups[i].category # groups[j].category
                           /\ First(groups[i].category) < First(groups[j].category)

\* The page was built from a list of categories A, B, A: two groups, the
\* first with two items.
C12_Witness ==
    /\ IsFile(outTree, AttrsPath)
    /\ Len(attributions) = 3
    /\ attributions[1].category = "A" /\ attributions[2].category = "B"
    /\ attributions[3].category = "A" /\ attributions[1] # attributions[3]
    /\ Len(outTree[AttrsPath].data.groups) = 2
    /\ Len(outTree[AttrsPath].data.groups[1].items) = 2

RenderedNow(p) ==
    IsFile(outTree, p) /\ outTree[p].data.rendered /\ writtenBy[p] = run

\* The century of the UTC calendar a time falls in.
Century(t) == t \div (TicksPerDay * DaysPerCentury)

\* C14, as claimed: of two renders of one run, the later has a cacheVersion
\* that is not smaller.
C14_CacheVersionMonotone ==
    \A p, q \in Paths :
        (RenderedNow(p) /\ RenderedNow(q) /\ outTree[p].mtime <= outTree[q].mtime)
        => outTree[p].data.cv <= outTree[q].data.cv

\* C14, as the code has it: cacheVersion is a number, and of two renders of
\* one run in the same century the later has a cacheVersion that is not
\* smaller; the two-digit year starts again at the turn of a century.
C14_MonotoneWithinCentury ==
    \A p, q \in Paths :
        (RenderedNow(p) /\ RenderedNow(q))
        => /\ outTree[p].data.cv \in Nat
           /\ ( /\ outTree[p].mtime <= outTree[q].mtime
                /\ Century(outTree[p].mtime) = Century(outTree[q].mtime) )
              => outTree[p].data.cv <= outTree[q].data.cv

\* A page of the walk and the attributions page, rendered at different
\* times of one century by one run.
C14_Witness ==
    /\ RenderedNow(<<"index.html">>) /\ RenderedNow(AttrsPath)
    /\ outTree[<<"index.html">>].mtime < outTree[AttrsPath].mtime
    /\ Century(outTree[<<"index.html">>].mtime) = Century(outTree[AttrsPath].mtime)
    /\ outTree[<<"index.html">>].data.cv < outTree[AttrsPath].data.cv

\* ------------------------------------------------------------- mirroring --
\* The handler has handled a notification for p since p was last edited:
\* nothing about p is left for the monitor to deliver.
Settled(p) ==
    \E i \in 1..Len(log) :
        /\ log[i].event = InPlaceEvent(p) /\ log[i].outcome # "edited"
        /\ \A j \in (i + 1)..Len(log) :
              ~(log[j].event = InPlaceEvent(p) /\ log[j].outcome = "edited")

\* The last notification for p the handler has handled was copied back.
LastCopied(p) ==
    \E i \in 1..Len(log) :
        /\ log[i].event = InPlaceEvent(p) /\ log[i].outcome = "copied"
        /\ \A j \in (i + 1)..Len(log) : log[j].event # InPlaceEvent(p)

\* C15: while the watcher runs, once every modification in place of a
\* static file with a pair has been notified and the notifications handled,
\* the paired source file holds what the output file holds.
C15_EditsMirrored ==
    \A p \in EditedRels :
        (pc = "watching" /\ Paired(InPlaceEvent(p)) /\ Settled(p))
        => srcTree[p].data = outTree[p].data

\* What the handler does: the paired source file holds what the output
\* file holds when the last notification for it passed the debounce.
C15_CopyMirrors ==
    \A p \in EditedRels :
        (pc = "watching" /\ Paired(InPlaceEvent(p)) /\ LastCopied(p))
        => srcTree[p].data = outTree[p].data

\* a.css was copied back, then edited, and the notification of the edit
\* was discarded by the debounce: the source file holds the old content.
C15_Witness ==
    /\ pc = "watching"
    /\ Len(log) = 3
    /\ log[1].outcome = "copied" /\ log[2].outcome = "edited" /\ log[3].outcome = "buffered"
    /\ srcTree[<<"a.css">>].data.ver # outTree[<<"a.css">>].data.ver

\* C16: the watcher copies back static files only: no notification makes a
\* source file hold a page the build rendered.
C16_TemplatesKept ==
    \A p \in Paths : IsFile(srcTree, p) => ~srcTree[p].data.rendered

\* A notification for the rendered index.html was copied back: the source
\* template holds the rendered page.
C16_Witness ==
    /\ \E i \in 1..Len(log) :
          log[i].event = InPlaceEvent(<<"index.html">>) /\ log[i].outcome = "copied"
    /\ srcTree[<<"index.html">>].data.rendered
    /\ srcTree[<<"index.html">>].data = outTree[<<"index.html">>].data

\* ----------------------------------------------------- the other tools ----
\* C17, as claimed: the open tool opens the browser, and the sync tool
\* starts to watch, only after a build has completed; before that, a build
\* that started and failed included, they report that the site is not
\* built.
C17_NotBuiltReported ==
    tool \in {"opened", "watching"} => builds # <<>>

\* C17, as the code has it: the open tool opens the browser when
\* index.html is a file of the output directory and reports "not built"
\* when it is not; the sync tool starts to watch when the output directory
\* is there and reports "not built" when it is not; before the build tool
\* was ever invoked both report "not built".
C17_ToolsCheckPaths ==
    /\ tool = "opened" => IsFile(outTree, <<"index.html">>)
    /\ tool = "open: not built" => ~IsFile(outTree, <<"index.html">>)
    /\ tool = "watching" => IsDir(outTree, Root)
    /\ tool = "sync: not built" => ~IsDir(outTree, Root)
    /\ run = 0 => tool \in {"none", "open: not built", "sync: not built"}
    /\ (tool # "none" /\ run > 0) => IsDir(outTree, Root)

\* The only build so far failed after it wrote index.html, and the open
\* tool opened the browser.
C17_Witness ==
    /\ tool = "opened"
    /\ run = 1 /\ pc = "aborted" /\ builds = <<>>
    /\ IsFile(outTree, <<"index.html">>)

\* -------------------------------------------------------------- debounce --
\* The notifications of this identity the handler did not discard.
Processed(event) ==
    { i \in 1..Len(log) : log[i].event = event /\ log[i].outcome # "buffered" }

\* C18, as claimed: a notification the debounce discards still sets the
\* time recorded for its identity, so that time is the time of the last
\* notification, discarded or not.
C18_DiscardRefreshes ==
    \A i \in 1..Len(log) :
        (\A j \in (i + 1)..Len(log) : log[j].event # log[i].event)
        => events[log[i].event] = log[i].time

\* C18, as the code has it: the time recorded for an identity is the time
\* of the last notification of it that passed the debounce; a notification
\* the debounce discards leaves it as it was.
C18_DiscardKeepsLastSeen ==
    /\ DOMAIN events = { log[i].event : i \in 1..Len(log) }
    /\ \A event \in DOMAIN events :
          /\ Processed(event) # {}
          /\ \E i \in Processed(event) :
                /\ \A j \in Processed(event) : j <= i
                /\ events[event] = log[i].time

\* A notification was discarded one tick after the one before it was
\* processed: the recorded time is the earlier one.
C18_Witness ==
    \E i \in 1..Len(log) :
        /\ log[i].outcome = "buffered"
        /\ events[log[i].event] < log[i].time

\* ---------------------------------------------------------------- phases --
\* The steps of BuildTool._run and BuildTool.build, in the order of the code.
Phases ==
    <<"idle", "constructed", "cleaned", "walk", "manifest", "attributions", "sitemap",
      "built", "watching", "stopped">>

\* One phase follows the other in that order; an exception ends the run at
\* whatever phase raised it, and without the watcher build() returns.
Follows(from, to) ==
    \/ \E i \in 1..(Len(Phases) - 1) : Phases[i] = from /\ Phases[i + 1] = to
    \/ from = "built" /\ to = "done"
    \/ to = "aborted" /\ from \in {"walk", "manifest", "attributions", "sitemap"}

\* C19: the phases of a run come in one order, each after the one before
\* it has ended: the walk with nothing left to visit, then the manifest
\* patcher, the attributions builder, the sitemap builder, and last the
\* watcher; no notification is handled before sitemap.xml is written.
C19_PhasesInOrder ==
    /\ [][pc' # pc => Follows(pc, pc')]_vars
    /\ [](pc \in {"manifest", "attributions", "sitemap", "built", "watching", "stopped"}
            => stack = <<>> /\ "walk" \in ran)
    /\ [](pc \in {"attributions", "sitemap", "built", "watching", "stopped"}
            => "manifest" \in ran)
    /\ [](pc \in {"sitemap", "built", "watching", "stopped"}
            => "attributions" \in ran /\ IsFile(outTree, AttrsPath))
    /\ [](pc \in {"built", "watching", "stopped"}
            => "sitemap" \in ran /\ IsFile(outTree, SitemapPath))
    /\ []("watch" \in ran <=> pc \in {"watching", "stopped"})
    /\ [](log # <<>> => "watch" \in ran /\ IsFile(outTree, SitemapPath))
    /\ [][log' # log => pc = "watching" /\ IsFile(outTree, SitemapPath)]_vars

\* The watcher has handled a notification, after the four steps before it.
C19_Witness ==
    /\ pc = "watching" /\ log # <<>>
    /\ ran = {"walk", "manifest", "attributions", "sitemap", "watch"}
    /\ IsFile(outTree, SitemapPath)

\* ------------------------------------------------------------ precedence --
\* The step handles the entry the innermost loop is at.
HandlesItem == pc = "walk" /\ stack # <<>> /\ (stack' # stack \/ pc' # pc)

\* The step has ended the run with the exception of `step`, writing nothing.
Raised(step) == pc' = "aborted" /\ err' = step /\ outTree' = outTree

\* What the step may do to an entry, by the first of these that the entry
\* is: blacklisted, a directory, named like a page, a file, none of them.
HandledByPrecedence(item, outputPath) ==
    IF Name(item) \in copyBlacklist
    THEN outTree' = outTree /\ pc' # "aborted"
    ELSE IF srcTree[item].kind = "dir"
    THEN /\ pc' # "aborted"
         /\ IsDir(outTree', outputPath)
         /\ \A p \in Paths : IsFile(outTree', p) <=> IsFile(outTree, p)
    ELSE IF Lower(Suffix(Name(item))) = ".html"
    THEN \/ Raised("render")
         \/ /\ pc' # "aborted"
            /\ IsFile(outTree', outputPath) /\ outTree'[outputPath].data.rendered
    ELSE IF srcTree[item].kind = "file"
    THEN \/ Raised("copy")
         \/ /\ pc' # "aborted"
            /\ IsFile(outTree', outputPath)
            /\ outTree'[outputPath].data = srcTree[item].data
    ELSE outTree' = outTree /\ pc' # "aborted"

\* C20: the walk takes each entry by the first rule that matches it, in
\* the order blacklisted, directory, page, file, other: a blacklisted
\* entry is passed over whether it is a directory or an .html file, and a
\* directory that is not blacklisted is listed, never rendered or copied,
\* even when its name ends in .html.
C20_FirstMatchingRule ==
    [][HandlesItem => HandledByPrecedence(Item, OutputPath(RootInput, Item))]_vars

\* The walk is over: the blacklisted page sub/skip.html and the blacklisted
\* directory drafts have no mirror, the directory d.html has one that is a
\* directory, and the page next to the blacklisted one was rendered.
C20_Witness ==
    /\ pc = "manifest"
    /\ IsFile(srcTree, <<"sub", "skip.html">>) /\ ~Exists(outTree, <<"sub", "skip.html">>)
    /\ IsDir(srcTree, <<"drafts">>) /\ ~Exists(outTree, <<"drafts">>)
    /\ IsDir(srcTree, <<"d.html">>) /\ IsDir(outTree, <<"d.html">>)
    /\ IsFile(outTree, <<"sub", "q.html">>) /\ outTree[<<"sub", "q.html">>].data.rendered

\* ----------------------------------------------------- start of a watcher --
\* C21, as claimed: whichever tool starts a watcher, the watched and the
\* result directory are directories when it starts watching.
C21_EveryStartValidates ==
    (pc = "watching" \/ tool = "watching")
        => IsDir(outTree, Root) /\ IsDir(srcTree, Root)

\* C21, as the code has it: the sync tool starts watching only when the
\* watched and the result directory are directories, and reports instead
\* when one is not; the build tool starts its watcher after the sitemap
\* without looking at either directory.
C21_StartsValidate ==
    /\ tool = "watching" => IsDir(outTree, Root) /\ IsDir(srcTree, Root)
    /\ tool = "sync: not built" => ~(IsDir(outTree, Root) /\ IsDir(srcTree, Root))
    /\ pc = "built" => ENABLED WatcherStart
    /\ pc = "watching" => IsDir(outTree, Root)

\* The build's watcher has run without the result directory, and the sync
\* tool, started after it, has refused to watch.
C21_Witness ==
    /\ pc = "stopped" /\ "watch" \in ran
    /\ IsDir(outTree, Root) /\ ~IsDir(srcTree, Root)
    /\ log # <<>>
    /\ tool = "sync: not built"

\* --------------------------------------------------------------- stopping --
\* C22: the interrupt of the wait loop stops and joins the observer before
\* the watcher returns, and a stopped watcher stays stopped: from then on
\* no notification is handled, no time is recorded and nothing is copied
\* into the source tree.
C22_StoppedIsTerminal ==
    /\ [][(pc = "watching" /\ pc' # pc) => pc' = "stopped"]_vars
    /\ [][pc = "stopped" =>
            /\ pc' = "stopped"
            /\ log' = log /\ events' = events
            /\ srcTree' = srcTree /\ outTree' = outTree]_vars

\* The watcher copied a file back and was then interrupted.
C22_Witness ==
    /\ pc = "stopped"
    /\ \E i \in 1..Len(log) : log[i].outcome = "copied"
    /\ Len(log) < MaxEvents

\* ------------------------------------------------- check, then copy back --
\* C23, as claimed: whatever is deleted in the source tree while the
\* watcher runs, no copy of the watcher makes a path of the source tree
\* that was not there when the copy was made.
C23_NoPathCreated ==
    \A i \in 1..Len(log) : log[i].outcome # "created"

\* What the handler keeps to: the paired path was there when the handler
\* looked for it, so a copy makes a path only when the path was deleted
\* between the look and the copy; a notification whose paired path is
\* absent at the look is rejected and copies nothing.
C23_CreatesOnlyAfterDelete ==
    pc \in {"watching", "stopped"} =>
        /\ \A i \in 1..Len(log) :
              log[i].outcome \in {"copied", "created"}
                  => Exists(builds[Len(builds)].src,
                            RelativeTo(log[i].event.src_path, outputDir))
        /\ \A p \in Paths : Exists(srcTree, p) => Exists(builds[Len(builds)].src, p)

\* The handler found src/a.css, the file was deleted, and copy2 has made
\* it again.
C23_Witness ==
    /\ log # <<>> /\ log[Len(log)].outcome = "created"
    /\ IsFile(srcTree, <<"a.css">>)

\* --------------------------------------------------------------- feedback --
\* The step is the handler taking a notification.
HandlerStep == Len(log') = Len(log) + 1 /\ log'[Len(log')].outcome # "edited"

\* C24: the handler, whether it copies or rejects, changes nothing under
\* the watched directory: what it writes lies under the result directory,
\* which is not beneath the watched one. So no copy makes the monitor
\* report again, and there are at most as many copies of a file as
\* modifications made to it from outside.
C24_NoFeedback ==
    /\ [][HandlerStep => outTree' = outTree]_vars
    /\ [](\A p \in Paths : /\ ~IsRelativeTo(sourceDir \o p, outputDir)
                           /\ ~IsRelativeTo(outputDir \o p, sourceDir))
    /\ [](\A p \in EditedRels :
            Cardinality({ i \in Notifications(p) : log[i].outcome = "copied" })
                <= Cardinality(Modifications(p)))

\* Two modifications of out/a.css, and one copy between them.
C24_Witness ==
    /\ Cardinality(Modifications(<<"a.css">>)) = 2
    /\ \E i \in Notifications(<<"a.css">>) : log[i].outcome = "copied"
    /\ srcTree[<<"a.css">>].data.ver = 1

\* ------------------------------------------------------ pages in the sitemap --
\* The source files the walk of this run rendered as pages.
RenderedPages ==
    { p \in Paths : /\ IsFile(srcTree, p) /\ ~Blacklisted(p)
                    /\ Lower(Suffix(Name(p))) = ".html"
                    /\ IsFile(outTree, p) /\ outTree[p].data.rendered }

\* The entries of the sitemap just written that name this path.
EntriesFor(p) ==
    { i \in 1..Len(outTree[SitemapPath].data.entries) :
        outTree[SitemapPath].data.entries[i].loc = rootUrl \o <<"/">> \o AsPosix(p) }

\* C25, as claimed: every source file the walk rendered as a page, its
\* extension being .html in whatever case, has exactly one entry in the
\* sitemap.
C25_RenderedPagesListed ==
    pc = "built" => \A p \in RenderedPages : Cardinality(EntriesFor(p)) = 1

\* What the sitemap holds of them: one entry for each rendered page whose
\* extension is ".html" in lower case, none for a page whose extension has
\* another case.
C25_ExactSuffixListed ==
    pc = "built" =>
        \A p \in RenderedPages :
            Cardinality(EntriesFor(p)) = IF Suffix(Name(p)) = ".html" THEN 1 ELSE 0

\* sub/P.HTML was rendered and the sitemap has no entry for it, while the
\* page sub/q.html next to it has one.
C25_Witness ==
    /\ pc = "built"
    /\ <<"sub", "P.HTML">> \in RenderedPages
    /\ EntriesFor(<<"sub", "P.HTML">>) = {}
    /\ Cardinality(EntriesFor(<<"sub", "q.html">>)) = 1

====
